---- MODULE Spec2Model ----
(***************************************************************************)
(* A model of the rockpi-penta daemon: the display scheduler of oled.py    *)
(* (auto_slider, refresh_display, display_process, welcome, goodbye), the  *)
(* fan controller of fan.py (get_dc, change_dc, running), the duty cycle   *)
(* curve misc.fan_temp2dc, the button (misc.read_key, misc.watch_key) and  *)
(* the rate samplers of misc.py.                                           *)
(*                                                                         *)
(* Time is a discrete clock `now` (seconds).  Every loop of the daemon is  *)
(* a process with a program counter; one action is one statement group of  *)
(* the source between two points where another process can interleave.     *)
(***************************************************************************)
EXTENDS Integers, Sequences, FiniteSets, TLC

VARIABLES
    now,            \* time.time()
    conf,           \* misc.conf: the configuration, fixed after read_conf
    run,            \* misc.conf['run'].value: the fan enabled flag
    \* ---- oled.py
    display_queue,  \* the mp.Queue of display requests
    msg_count,      \* number of requests put on display_queue so far
    done_count,     \* number of requests display_process has taken off it
    display_lock,   \* holder of display_lock, or "free"
    next_time,      \* next_time[0]
    refresh_time,   \* refresh_time[0]
    display_list,   \* display_process: pages left in the rotation
    last_page,      \* display_process: last_page[0]
    action,         \* display_process: the request being processed
    image,          \* display_process: what is drawn on its image buffer
    screen,         \* what the SSD1306 shows
    zpool_cmd,      \* display_process: how the page drawn for the request
                    \* sampled its pool, or "none"
    dp_pc,          \* display_process position
    as_pc,          \* auto_slider position
    as_set_at,      \* auto_slider: the time.time() read at line 336
    rd_pc,          \* refresh_display position
    main_pc,        \* the main program: welcome() ... goodbye()
    \* ---- fan.py
    fan_pc,         \* fan.running position
    get_dc_cache,   \* get_dc's cache={}, one per process that calls it
    change_dc_cache,\* change_dc's cache={} (fan process)
    dc,             \* the value get_dc returned to running()
    page_dc,        \* the value get_dc returned to the fan speed page
    pin13,          \* the off ratio last written to the PWM pin
    wrote,          \* whether the last change_dc call wrote to pin13
    write_failed,   \* whether the last pin13.write failed to set the pin
    \* ---- misc.fan_temp2dc applied to free inputs
    t_arg,          \* a pair of temperatures
    t_res,          \* fan_temp2dc of each
    \* ---- misc.read_key and misc.watch_key
    key_s,          \* read_key: the window s that the patterns were tried on
    key_ret,        \* what read_key did after that sample: a gesture or "none"
    key_fed,        \* the samples read_key has read since it was called
    key_prev,       \* what the call of read_key before this one returned
    \* ---- the rate samplers of misc.py
    raw_interface_io,  \* raw_interface_io: the previous sample of each interface
    raw_disk_io,       \* raw_disk_io: the previous sample of each disk
    interface_io_rate, \* interface_io_rate, in MB/s
    disk_io_rate,      \* disk_io_rate, in MB/s
    disk_sector_sizes, \* disk_sector_sizes
    io_call,           \* the last call of a rate sampler: what it read and
                       \* the exception it raised
    \* ---- the poll of the disks' temperatures (misc.get_disk_temp_info)
    last_fan_poll_time,\* last_fan_poll_time[0]
    poll_count         \* number of polls performed so far

vars == <<now, conf, run, display_queue, msg_count, done_count, display_lock,
          next_time, refresh_time, display_list, last_page, action, image,
          screen, zpool_cmd, dp_pc, as_pc, as_set_at, rd_pc, main_pc, fan_pc,
          get_dc_cache, change_dc_cache, dc, page_dc, pin13, wrote,
          write_failed,
          t_arg, t_res, key_s, key_ret, key_fed, key_prev, raw_interface_io,
          raw_disk_io, interface_io_rate, disk_io_rate, disk_sector_sizes,
          io_call, last_fan_poll_time, poll_count>>

oled_vars == <<display_queue, msg_count, done_count, display_lock, next_time,
               refresh_time, display_list, last_page, action, image, screen,
               zpool_cmd, dp_pc, as_pc, as_set_at, rd_pc, main_pc>>

fan_vars == <<fan_pc, get_dc_cache, change_dc_cache, dc, page_dc, pin13, wrote,
              write_failed>>

temp_vars == <<t_arg, t_res>>

key_vars == <<key_s, key_ret, key_fed, key_prev>>

io_vars == <<raw_interface_io, raw_disk_io, interface_io_rate, disk_io_rate,
             disk_sector_sizes, io_call>>

poll_vars == <<last_fan_poll_time, poll_count>>

\* what no statement of oled.py changes
not_oled == <<now, conf, run, fan_vars, temp_vars, key_vars, io_vars,
              poll_vars>>

\* the same without the poll of the disks' temperatures
not_oled_poll == <<now, conf, run, fan_vars, temp_vars, key_vars, io_vars>>

\* what no statement of fan.py changes
not_fan == <<now, conf, oled_vars, temp_vars, key_vars, io_vars, poll_vars>>

\* the same without the poll of the disks' temperatures
not_fan_poll == <<now, conf, oled_vars, temp_vars, key_vars, io_vars>>

----------------------------------------------------------------------------
(* Bounds of the model *)

\* the clock starts at Epoch and runs to Epoch + MaxTime
Epoch == 6
MaxTime == 3
\* requests put on display_queue in one run: one round of the rotation and
\* MaxWrap more; and requests waiting in the queue at one time
MaxWrap == 1
MaxQueue == 2
\* the non-zero slider period and refresh period a configuration can have
MaxSlider == 2
MaxRefresh == 1
\* temperatures and thresholds range over 0..MaxTemp
MaxTemp == 4
\* the clock of the fan model runs to Epoch + FanMaxTime
FanMaxTime == 6
\* the button: the press and twice times go up to MaxSize and MaxWait tenths
\* of a second, and read_key reads up to MaxFed samples in one call
MaxSize == 7
MaxWait == 3
MaxFed == 9
\* the rate samplers: counters go up to MaxRaw and the clock they read up to
\* MaxIoTime
MaxRaw == 1
MaxIoTime == 2
\* the poll of the disks' temperatures: the clock runs for PollMaxTime seconds,
\* long enough for get_dc to read the temperature a second time
PollMaxTime == 6
\* a duty cycle is held as an integer, in units of 1/DcUnit percent
DcUnit == 20

Temps == 0..MaxTemp
Percent(p) == p * DcUnit

\* Python's None where a time or a duty cycle is expected: a value neither takes
None == 0 - 1

Max(a, b) == IF a >= b THEN a ELSE b
Min(a, b) == IF a <= b THEN a ELSE b

----------------------------------------------------------------------------
(* Pages *)

Page(kind, name) == [kind |-> kind, name |-> name]

NoPage == Page("None", "")
Blank == Page("blank", "")
WelcomeBanner == Page("banner", "ROCKPi PENTA HAT")
GoodbyeBanner == Page("banner", "Good Bye ~")

\* a mounted partition: the disk it is on and its partition number
Partition(disk, num) == [disk |-> disk, num |-> num]

delete_disk_partition_number(p) == p.disk

Interface_io_page_factory ==
    [i \in 1..Len(conf.interfaces) |-> Page("Interface_io_page", conf.interfaces[i])]

\* DiskIOPage(disk_name, zpool=True)
ZpoolPage(name) == Page("DiskIOPage, zpool", name)

DiskIOPage_factory ==
    [i \in 1..Len(conf.disks) |->
        Page("DiskIOPage", delete_disk_partition_number(conf.disks[i]))]
    \o [i \in 1..Len(conf.zpools) |-> ZpoolPage(conf.zpools[i])]

Disk_temp_info_page_factory ==
    IF conf.disks_temp THEN <<Page("Disk_temp_info_page", "")>> ELSE <<>>

gen_display_pages_list ==
    <<Page("General_system_info_page0", "")>>
    \o <<Page("General_system_info_page1", "")>>
    \o <<Page("Disk_info_page", "")>>
    \o Interface_io_page_factory
    \o DiskIOPage_factory
    \o Disk_temp_info_page_factory

\* a duration that falls back to a default when the configured one is zero
slider_sleep_duration_or_default ==
    IF conf.slider_time = 0 THEN MaxSlider ELSE conf.slider_time

get_slider_sleep_duration == conf.slider_time

get_refresh_period == conf.refresh

----------------------------------------------------------------------------
(* misc.py and fan.py: the poll of the disks' temperatures *)

\* misc.py lines 53-54 and 153-154: 10 seconds, or 16 slider periods when
\* the page of the disks' temperatures is in the rotation
fan_poll_delay == IF conf.disks_temp THEN conf.slider_time * 16 ELSE 10

\* misc.py line 535
is_fan_cpu_and_disk == conf.temp_disks

\* a poll that is due whatever the time of the last one
poll_due_always == TRUE

\* fan.py line 52
poll_due == last_fan_poll_time + fan_poll_delay < now

\* misc.py lines 282-313: smartctl on every disk; line 312 records the time
get_disk_temp_info ==
    /\ last_fan_poll_time' = now
    /\ poll_count' = poll_count + 1

\* fan.py lines 51-53: read_cpu_temp polls the disks when a poll is due
read_cpu_temp ==
    IF is_fan_cpu_and_disk /\ poll_due
    THEN get_disk_temp_info
    ELSE UNCHANGED poll_vars

\* oled.py lines 274-276: get_page_text of the page of the disks' temperatures
\* calls misc.get_disk_temp_info
page_polls(page) == page.kind = "Disk_temp_info_page"

----------------------------------------------------------------------------
(* The display queue and the display lock *)

Msg(adv, id) == [adv |-> adv, id |-> id]
NoMsg == Msg(FALSE, 0)

\* the model stops producing at MaxMsgs requests, MaxQueue of them waiting
MaxMsgs == Len(gen_display_pages_list) + MaxWrap
CanPut == msg_count < MaxMsgs /\ Len(display_queue) < MaxQueue

\* display_queue.put(adv)
put(adv) ==
    /\ display_queue' = Append(display_queue, Msg(adv, msg_count + 1))
    /\ msg_count' = msg_count + 1

\* a get that takes the newest request instead of the oldest
get_item_newest(q) == q[Len(q)]

\* what display_queue.get() returns, and what it leaves in the queue
get_item(q) == Head(q)
get_rest(q) == Tail(q)

\* an entry that does not wait for the lock to be free
acquire_unguarded(p) == display_lock' = p

\* with display_lock: entry
acquire(p) == display_lock = "free" /\ display_lock' = p

\* with display_lock: exit
release(p) == display_lock' = "free"

----------------------------------------------------------------------------
(* oled.auto_slider *)

\* lines 332-333: the initial deadline and the forced initial display
AsStart ==
    /\ as_pc = "start"
    /\ CanPut
    /\ next_time' = now + 10
    /\ put(TRUE)
    /\ as_pc' = "loop"
    /\ UNCHANGED <<not_oled, zpool_cmd, done_count, display_lock, refresh_time, display_list,
                   last_page, action, image, screen, dp_pc, as_set_at, rd_pc,
                   main_pc>>

\* line 334, loop condition false: auto is off
AsExit ==
    /\ as_pc = "loop"
    /\ ~conf.auto
    /\ as_pc' = "done"
    /\ UNCHANGED <<not_oled, zpool_cmd, display_queue, msg_count, done_count, display_lock,
                   next_time, refresh_time, display_list, last_page, action,
                   image, screen, dp_pc, as_set_at, rd_pc, main_pc>>

\* lines 335-336: a non-zero duration sets the deadline
AsSetDeadline ==
    /\ as_pc = "loop"
    /\ conf.auto
    /\ get_slider_sleep_duration # 0
    /\ next_time' = now + get_slider_sleep_duration
    /\ as_set_at' = now
    /\ as_pc' = "wait"
    /\ UNCHANGED <<not_oled, zpool_cmd, display_queue, msg_count, done_count, display_lock,
                   refresh_time, display_list, last_page, action, image,
                   screen, dp_pc, rd_pc, main_pc>>

\* lines 340-341: a zero duration, sleep and retry
AsIdle ==
    /\ as_pc = "loop"
    /\ conf.auto
    /\ get_slider_sleep_duration = 0
    /\ as_pc' = "loop"
    /\ UNCHANGED <<not_oled, zpool_cmd, display_queue, msg_count, done_count, display_lock,
                   next_time, refresh_time, display_list, last_page, action,
                   image, screen, dp_pc, as_set_at, rd_pc, main_pc>>

\* lines 337-338: the wait loop ends once time.time() >= next_time[0]
AsWait ==
    /\ as_pc = "wait"
    /\ ~(now < next_time)
    /\ as_pc' = "put"
    /\ UNCHANGED <<not_oled, zpool_cmd, display_queue, msg_count, done_count, display_lock,
                   next_time, refresh_time, display_list, last_page, action,
                   image, screen, dp_pc, as_set_at, rd_pc, main_pc>>

\* line 339
AsPut ==
    /\ as_pc = "put"
    /\ CanPut
    /\ put(TRUE)
    /\ as_pc' = "loop"
    /\ UNCHANGED <<not_oled, zpool_cmd, done_count, display_lock, next_time, refresh_time,
                   display_list, last_page, action, image, screen, dp_pc,
                   as_set_at, rd_pc, main_pc>>

auto_slider == AsStart \/ AsExit \/ AsSetDeadline \/ AsIdle \/ AsWait \/ AsPut

----------------------------------------------------------------------------
(* oled.refresh_display *)

\* a refresh loop that ignores the configured period
refresh_always == TRUE

\* line 393: the loop runs while the refresh period is non-zero
refresh_enabled == get_refresh_period # 0

RdExit ==
    /\ rd_pc = "loop"
    /\ ~refresh_enabled
    /\ rd_pc' = "done"
    /\ UNCHANGED <<not_oled, zpool_cmd, display_queue, msg_count, done_count, display_lock,
                   next_time, refresh_time, display_list, last_page, action,
                   image, screen, dp_pc, as_pc, as_set_at, main_pc>>

\* lines 394-396: past the refresh deadline, push it out and ask for a refresh
RdTick ==
    /\ rd_pc = "loop"
    /\ refresh_enabled
    /\ now > refresh_time
    /\ CanPut
    /\ refresh_time' = now + get_refresh_period
    /\ put(FALSE)
    /\ UNCHANGED <<not_oled, zpool_cmd, done_count, display_lock, next_time, display_list,
                   last_page, action, image, screen, dp_pc, as_pc, as_set_at,
                   rd_pc, main_pc>>

refresh_display == RdExit \/ RdTick

----------------------------------------------------------------------------
(* oled.display_process *)

\* line 368
DpGet ==
    /\ dp_pc = "get"
    /\ display_queue # <<>>
    /\ action' = get_item(display_queue)
    /\ display_queue' = get_rest(display_queue)
    /\ done_count' = done_count + 1
    /\ dp_pc' = "lock"
    /\ UNCHANGED <<not_oled, zpool_cmd, msg_count, display_lock, next_time, refresh_time,
                   display_list, last_page, image, screen, as_pc, as_set_at,
                   rd_pc, main_pc>>

\* line 369
DpLock ==
    /\ dp_pc = "lock"
    /\ acquire("display_process")
    /\ dp_pc' = "update"
    /\ UNCHANGED <<not_oled, zpool_cmd, display_queue, msg_count, done_count, next_time,
                   refresh_time, display_list, last_page, action, image,
                   screen, as_pc, as_set_at, rd_pc, main_pc>>

\* a list that is regenerated one request before it is exhausted
refilled_eagerly(list) ==
    IF Len(list) <= 1 THEN list \o gen_display_pages_list ELSE list

\* lines 370-371: the list display_process works on
refilled(list) == IF Len(list) = 0 THEN list \o gen_display_pages_list ELSE list

\* a choice of the head of the list for every request
page_to_show_head(list, adv, last) == list[1]

\* line 376
page_to_show(list, adv, last) == IF adv THEN list[1] ELSE last

\* a deadline of the slider that every request sets
next_deadline_always(adv) == now + get_slider_sleep_duration

\* lines 372-373: next_time[0] after the request
next_deadline(adv) ==
    IF adv THEN now + get_slider_sleep_duration ELSE next_time

\* misc.py lines 73-79 and 275-279: with zfs set, DiskIOPage.page_factory
\* calls get_zpools, whose `zpool list` can exit with a non-zero status:
\* check_output then raises CalledProcessError
get_zpools_outcomes ==
    IF conf.zpools # <<>> THEN {"listed", "raised"} ELSE {"listed"}

\* lines 370-371: what can become of the call of gen_display_pages_list,
\* which no try encloses
regenerated(list) == IF Len(list) = 0 THEN get_zpools_outcomes ELSE {"kept"}

\* lines 370-377: regenerate an exhausted list, set the deadlines, pick the
\* page.  An exception of gen_display_pages_list leaves the with block, which
\* releases the lock, and ends display_process
DpUpdate ==
    /\ dp_pc = "update"
    /\ \E outcome \in regenerated(display_list) :
          IF outcome = "raised"
          THEN /\ release("display_process")
               /\ dp_pc' = "dead"
               /\ UNCHANGED <<display_list, next_time, refresh_time, last_page>>
          ELSE /\ display_list' = refilled(display_list)
               /\ next_time' = next_deadline(action.adv)
               /\ refresh_time' = now + get_refresh_period
               /\ last_page' = page_to_show(display_list', action.adv, last_page)
               /\ dp_pc' = IF last_page' # NoPage THEN "render" ELSE "pop"
               /\ UNCHANGED display_lock
    /\ UNCHANGED <<not_oled, zpool_cmd, display_queue, msg_count, done_count,
                   action, image, screen, as_pc, as_set_at, rd_pc, main_pc>>

\* a DiskIOPage that does not pass the request on to the sampler
skip_default(adv) == FALSE

\* line 251: skip=action
skip(adv) == adv

\* misc.py lines 390-404: `zpool iostat -Hp` and the uptime when skip is set,
\* `zpool iostat -Hpy interval 1`, which takes interval seconds, when not
get_zpool_io(skipped) == IF skipped THEN "estimate" ELSE "blocking"

\* lines 250-251: how get_page_text(action) of the page samples a pool
get_page_text(page, adv) ==
    IF page.kind = "DiskIOPage, zpool" THEN get_zpool_io(skip(adv)) ELSE "none"

\* lines 378-382: get_page_text and draw.text; an exception of get_page_text
\* is printed and leaves the image buffer as it was
DpRender ==
    /\ dp_pc = "render"
    /\ zpool_cmd' = get_page_text(last_page, action.adv)
    /\ \E raised \in BOOLEAN :
          /\ image' = IF raised THEN image ELSE last_page
          /\ IF page_polls(last_page) /\ ~raised
             THEN get_disk_temp_info
             ELSE UNCHANGED poll_vars
    /\ dp_pc' = "show"
    /\ UNCHANGED <<not_oled_poll, display_queue, msg_count, done_count,
                   display_lock, next_time, refresh_time, display_list,
                   last_page, action, screen, as_pc, as_set_at, rd_pc, main_pc>>

\* line 383: disp_show sends the image buffer to the display and clears it
DpShow ==
    /\ dp_pc = "show"
    /\ screen' = image
    /\ image' = Blank
    /\ dp_pc' = "pop"
    /\ UNCHANGED <<not_oled, zpool_cmd, display_queue, msg_count, done_count,
                   display_lock, next_time, refresh_time, display_list,
                   last_page, action, as_pc, as_set_at, rd_pc, main_pc>>

\* a pop that is not guarded by the request's flag
popped_always(list, adv) == Tail(list)

\* lines 384-385: what is left of the list after a request
popped(list, adv) == IF adv THEN Tail(list) ELSE list

\* lines 384-385 and the end of the with block
DpPop ==
    /\ dp_pc = "pop"
    /\ display_list' = popped(display_list, action.adv)
    /\ release("display_process")
    /\ action' = NoMsg
    /\ zpool_cmd' = "none"
    /\ dp_pc' = "get"
    /\ UNCHANGED <<not_oled, display_queue, msg_count, done_count, next_time,
                   refresh_time, last_page, image, screen, as_pc, as_set_at,
                   rd_pc, main_pc>>

display_process == DpGet \/ DpLock \/ DpUpdate \/ DpRender \/ DpShow \/ DpPop

----------------------------------------------------------------------------
(* oled.welcome and oled.goodbye, called by the main program *)

\* line 81
WelcomeLock ==
    /\ main_pc = "welcome"
    /\ acquire("main")
    /\ main_pc' = "welcome_draw"
    /\ UNCHANGED <<not_oled, zpool_cmd, display_queue, msg_count, done_count, next_time,
                   refresh_time, display_list, last_page, action, image,
                   screen, dp_pc, as_pc, as_set_at, rd_pc>>

\* lines 82-84
WelcomeShow ==
    /\ main_pc = "welcome_draw"
    /\ screen' = WelcomeBanner
    /\ release("main")
    /\ main_pc' = "running"
    /\ UNCHANGED <<not_oled, zpool_cmd, display_queue, msg_count, done_count, next_time,
                   refresh_time, display_list, last_page, action, image,
                   dp_pc, as_pc, as_set_at, rd_pc>>

\* line 90
GoodbyeLock ==
    /\ main_pc = "running"
    /\ acquire("main")
    /\ main_pc' = "goodbye_draw"
    /\ UNCHANGED <<not_oled, zpool_cmd, display_queue, msg_count, done_count, next_time,
                   refresh_time, display_list, last_page, action, image,
                   screen, dp_pc, as_pc, as_set_at, rd_pc>>

\* lines 91-92
GoodbyeShow ==
    /\ main_pc = "goodbye_draw"
    /\ screen' = GoodbyeBanner
    /\ release("main")
    /\ main_pc' = "goodbye_sleep"
    /\ UNCHANGED <<not_oled, zpool_cmd, display_queue, msg_count, done_count, next_time,
                   refresh_time, display_list, last_page, action, image,
                   dp_pc, as_pc, as_set_at, rd_pc>>

\* lines 93-94
GoodbyeLockAgain ==
    /\ main_pc = "goodbye_sleep"
    /\ acquire("main")
    /\ main_pc' = "goodbye_clear"
    /\ UNCHANGED <<not_oled, zpool_cmd, display_queue, msg_count, done_count, next_time,
                   refresh_time, display_list, last_page, action, image,
                   screen, dp_pc, as_pc, as_set_at, rd_pc>>

\* line 95
GoodbyeClear ==
    /\ main_pc = "goodbye_clear"
    /\ screen' = Blank
    /\ release("main")
    /\ main_pc' = "done"
    /\ UNCHANGED <<not_oled, zpool_cmd, display_queue, msg_count, done_count, next_time,
                   refresh_time, display_list, last_page, action, image,
                   dp_pc, as_pc, as_set_at, rd_pc>>

main == WelcomeLock \/ WelcomeShow \/ GoodbyeLock \/ GoodbyeShow
        \/ GoodbyeLockAgain \/ GoodbyeClear

----------------------------------------------------------------------------
(* The gesture dispatcher: a gesture mapped to "slider" asks for an advance *)

receive_key_slider ==
    /\ CanPut
    /\ put(TRUE)
    /\ UNCHANGED <<not_oled, zpool_cmd, done_count, display_lock, next_time,
                   refresh_time, display_list, last_page, action, image,
                   screen, dp_pc, as_pc, as_set_at, rd_pc, main_pc>>

----------------------------------------------------------------------------
(* The clock *)

Tick ==
    /\ now < Epoch + MaxTime
    /\ now' = now + 1
    /\ UNCHANGED <<conf, run, oled_vars, fan_vars, temp_vars, key_vars,
                   io_vars, poll_vars>>

----------------------------------------------------------------------------
(* misc.py: the fan curve and the fan switch *)

\* lv2dc, in the order of the OrderedDict
lv2dc == << [lv |-> "lv3", dc |-> 100], [lv |-> "lv2", dc |-> 75],
            [lv |-> "lv1", dc |-> 50], [lv |-> "lv0", dc |-> 25] >>

\* a scan that returns the last level whose threshold is met, not the first
step_dc_last_met(i, temp) ==
    LET met == {j \in i..4 : temp >= conf.fan[lv2dc[j].lv]}
    IN  IF met = {} THEN Percent(10)
        ELSE Percent(lv2dc[CHOOSE j \in met : \A k \in met : k <= j].dc)

\* lines 505-508: the first level of lv2dc, from index i on, whose threshold
\* temp reaches; 10 when there is none
RECURSIVE step_dc(_, _)
step_dc(i, temp) ==
    IF i > Len(lv2dc) THEN Percent(10)
    ELSE IF temp >= conf.fan[lv2dc[i].lv] THEN Percent(lv2dc[i].dc)
    ELSE step_dc(i + 1, temp)

\* the interpolation without the bounding of line 502
linear_dc_unbounded(temp) ==
    LET base_temp   == conf.fan["lv0"]
        denominator == conf.fan["lv3"] - base_temp
    IN  (IF denominator > 0
         THEN (Percent(75) * (temp - base_temp)) \div denominator
         ELSE Percent(1) * (temp - base_temp)) + Percent(25)

\* lines 497-503: slope * (temp - base_temp) + lv0_percent, bounded
linear_dc(temp) ==
    LET lv0_percent == Percent(lv2dc[4].dc)
        lv3_percent == Percent(lv2dc[1].dc)
        base_temp   == conf.fan["lv0"]
        denominator == conf.fan["lv3"] - base_temp
        raised      == IF denominator > 0
                       THEN ((lv3_percent - lv0_percent) * (temp - base_temp))
                                \div denominator
                       ELSE Percent(1) * (temp - base_temp)
    IN  Min(lv3_percent, Max(raised + lv0_percent, lv0_percent))

fan_temp2dc(temp) == IF conf.linear THEN linear_dc(temp) ELSE step_dc(1, temp)

fan_running == run

fan_switch ==
    /\ run' = ~run
    /\ UNCHANGED <<now, conf, oled_vars, fan_vars, temp_vars, key_vars,
                   io_vars, poll_vars>>

----------------------------------------------------------------------------
(* fan.py *)

\* the processes that call get_dc, each with its own copy of cache={}
Callers == {"fan", "display_process"}

EmptyCache == [time |-> None, dc |-> None]

\* cache.get('time', 0)
cache_time(c) == IF c.time = None THEN 0 ELSE c.time

\* line 69: the cached duty cycle is out of date
stale(c) == now - cache_time(c) > 5

\* line 66
disabled_dc == DcUnit \div 10

\* a get_dc that serves a fresh cached value before it looks at the switch
get_dc_cache_first(p, returned) ==
    IF ~stale(get_dc_cache[p])
    THEN /\ returned = get_dc_cache[p].dc
         /\ UNCHANGED get_dc_cache
    ELSE IF ~fan_running
    THEN /\ returned = disabled_dc
         /\ UNCHANGED get_dc_cache
    ELSE \E temp \in Temps :
            /\ get_dc_cache' = [get_dc_cache EXCEPT
                                  ![p] = [time |-> now, dc |-> fan_temp2dc(temp)]]
            /\ returned = fan_temp2dc(temp)

\* get_dc called by process p: the cache it leaves and the value it returns
get_dc(p, returned) ==
    IF ~fan_running
    THEN /\ returned = disabled_dc
         /\ UNCHANGED get_dc_cache
    ELSE IF stale(get_dc_cache[p])
    THEN \E temp \in Temps :
            /\ get_dc_cache' = [get_dc_cache EXCEPT
                                  ![p] = [time |-> now, dc |-> fan_temp2dc(temp)]]
            /\ returned = fan_temp2dc(temp)
    ELSE /\ returned = get_dc_cache[p].dc
         /\ UNCHANGED get_dc_cache

\* lines 65-71: get_dc of process p goes on to read_cpu_temp
reads_temp(p) == fan_running /\ stale(get_dc_cache[p])

\* line 89, the argument of change_dc
FanGetDc ==
    /\ fan_pc = "get_dc"
    /\ get_dc("fan", dc')
    /\ IF reads_temp("fan") THEN read_cpu_temp ELSE UNCHANGED poll_vars
    /\ fan_pc' = "change_dc"
    /\ UNCHANGED <<not_fan_poll, run, change_dc_cache, page_dc, pin13, wrote,
                   write_failed>>

\* a change_dc that does not compare with the cached value
changed_always(value, cache) == TRUE

\* line 79
changed(value, cache) == value # cache

\* line 80: cache['dc'] = dc, before the write and whatever becomes of it
remembered(value, cache, outcome) == value

\* line 81 and lines 37-38: what can become of pin13.write.  The pin takes
\* the value, or it does not and change_dc is not told: misc.set_mode prints
\* the exception of the GPIO (misc.py lines 65-70), and the result that
\* mraa.Pwm.write returns is not looked at
WriteOutcomes == {"written", "failed"}

\* lines 79-81 and the sleep of line 90
FanChangeDc ==
    /\ fan_pc = "change_dc"
    /\ IF changed(dc, change_dc_cache)
       THEN \E outcome \in WriteOutcomes :
               /\ change_dc_cache' = remembered(dc, change_dc_cache, outcome)
               /\ pin13' = Percent(100) - dc
               /\ wrote' = TRUE
               /\ write_failed' = (outcome # "written")
       ELSE /\ wrote' = FALSE
            /\ UNCHANGED <<change_dc_cache, pin13, write_failed>>
    /\ fan_pc' = "get_dc"
    /\ UNCHANGED <<not_fan, run, get_dc_cache, dc, page_dc>>

running == FanGetDc \/ FanChangeDc

\* oled.py line 149: the fan speed page asks for the duty cycle
PageGetDc ==
    /\ get_dc("display_process", page_dc')
    /\ IF reads_temp("display_process") THEN read_cpu_temp
       ELSE UNCHANGED poll_vars
    /\ UNCHANGED <<not_fan_poll, run, fan_pc, change_dc_cache, dc, pin13, wrote,
                   write_failed>>

FanTick ==
    /\ now < Epoch + FanMaxTime
    /\ now' = now + 1
    /\ UNCHANGED <<conf, run, oled_vars, fan_vars, temp_vars, key_vars,
                   io_vars, poll_vars>>

----------------------------------------------------------------------------
(* misc.fan_temp2dc applied to two temperatures *)

Temp2dc ==
    /\ \E t1, t2 \in Temps :
          /\ t_arg' = <<t1, t2>>
          /\ t_res' = <<fan_temp2dc(t1), fan_temp2dc(t2)>>
    /\ UNCHANGED <<now, conf, run, oled_vars, fan_vars, key_vars, io_vars,
                   poll_vars>>

----------------------------------------------------------------------------
(* misc.py: the button.  A sample is 1 (released) or 0 (pressed); read_key   *)
(* keeps a window of samples and tries three patterns on it after each one. *)

\* line 207: int(conf['time']['press'] * 10); conf.time is held in units of
\* 0.1 s, the period of the sampling loop
size == conf.time.press

\* line 208: int(conf['time']['twice'] * 10)
wait == conf.time.twice

\* c+ in the place of c{min,}
AtLeastOnce(c, min) == [c |-> c, min |-> 1]

\* c{min,}: at least min repetitions of the sample c
AtLeast(c, min) == [c |-> c, min |-> min]

\* lines 209-213: the patterns, in the order of the dict
pattern ==
    << [t |-> "click", p |-> <<AtLeast(1, 1), AtLeast(0, 1), AtLeast(1, wait)>>],
       [t |-> "twice", p |-> <<AtLeast(1, 1), AtLeast(0, 1), AtLeast(1, 1),
                               AtLeast(0, 1), AtLeast(1, 3)>>],
       [t |-> "press", p |-> <<AtLeast(1, 1), AtLeast(0, size)>>] >>

\* the number of consecutive samples equal to c in s from position i on
RECURSIVE run_length(_, _, _)
run_length(s, i, c) ==
    IF i > Len(s) \/ s[i] # c THEN 0 ELSE 1 + run_length(s, i + 1, c)

\* re.match of the items k.. of p at position i of s: a match of a prefix.
\* Consecutive items are of different samples and every item that is not
\* the last needs one repetition at least, so an item takes the whole run
RECURSIVE match_from(_, _, _, _)
match_from(p, k, s, i) ==
    IF k > Len(p) THEN TRUE
    ELSE LET n == run_length(s, i, p[k].c)
         IN  n >= p[k].min /\ match_from(p, k + 1, s, i + n)

\* a search of the whole window, as re.search does
match_anywhere(p, s) == \E i \in 1..Len(s) : match_from(p, 1, s, i)

\* line 200: p.match(s)
match(p, s) == match_from(p, 1, s, 1)

\* a window that keeps one sample less
window_shorter(s) ==
    IF Len(s) < size THEN s ELSE SubSeq(s, Len(s) - size + 2, Len(s))

\* line 198: s[-size:], and s[-0:] is the whole of s
window(s) ==
    IF size = 0 \/ Len(s) <= size THEN s
    ELSE SubSeq(s, Len(s) - size + 1, Len(s))

\* lines 199-201: the first pattern from k on, in the order of the dict, that
\* matches s
RECURSIVE first_match(_, _)
first_match(k, s) ==
    IF k > Len(pattern) THEN "none"
    ELSE IF match(pattern[k].p, s) THEN pattern[k].t
    ELSE first_match(k + 1, s)

\* the patterns that match s
matching(s) == { pattern[k].t : k \in { j \in 1..Len(pattern) : match(pattern[j].p, s) } }

\* a read_key that goes on with the window of the call before
restart_kept(ret, s) == s

\* lines 197 and 218: watch_key calls read_key again after a gesture, and
\* read_key starts with s = ''
restart(ret, s) == IF ret = "none" THEN s ELSE <<>>

\* lines 196-203 and 217-220: one turn of read_key's loop.  When the turn
\* before returned a gesture, watch_key has put it on its queue and called
\* read_key again, which starts from s = ''
read_key ==
    LET s == restart(key_ret, key_s)
        fed == IF key_ret = "none" THEN key_fed ELSE <<>>
    IN  /\ Len(fed) < MaxFed
        /\ \E sample \in {0, 1} :
              /\ key_s' = window(s) \o <<sample>>
              /\ key_fed' = fed \o <<sample>>
        /\ key_ret' = first_match(1, key_s')
        /\ key_prev' = IF key_ret = "none" THEN key_prev ELSE key_ret
        /\ UNCHANGED <<now, conf, run, oled_vars, fan_vars, temp_vars, io_vars,
                       poll_vars>>

----------------------------------------------------------------------------
(* misc.py: the rate samplers of the interfaces and the disks.  A rate is   *)
(* held as the exact fraction n / d that the float expression stands for.   *)

Frac(n, d) == [n |-> n, d |-> d]

\* a / b for fractions a and b, b not zero
FDiv(a, b) == Frac(a.n * b.d, a.d * b.n)

Abs(x) == IF x < 0 THEN 0 - x ELSE x

RECURSIVE GCD(_, _)
GCD(a, b) == IF b = 0 THEN a ELSE GCD(b, a % b)

\* the fraction in lowest terms with a positive denominator
Norm(f) ==
    LET g == GCD(Abs(f.n), Abs(f.d))
    IN  IF f.d < 0 THEN Frac((0 - f.n) \div g, (0 - f.d) \div g)
        ELSE Frac(f.n \div g, f.d \div g)

\* d[k] = v
dict_set(d, k, v) == [x \in DOMAIN d \cup {k} |-> IF x = k THEN v ELSE d[x]]

\* lines 376-378 and 386-388: a raw sample.  time.time() is the wall clock,
\* which a step of the clock can leave where it was or set back
RawSamples == [rx : 0..MaxRaw, tx : 0..MaxRaw, time : 0..MaxIoTime]

Call(kind, device, raw, error) ==
    [kind |-> kind, device |-> device, raw |-> raw, error |-> error]

NoCall == Call("none", "", [rx |-> 0, tx |-> 0, time |-> 0], "none")

\* /sys/block/<disk>/queue/hw_sector_size
hw_sector_size(disk) == IF disk = "sda" THEN 512 ELSE 4096

\* lines 424-425: ((raw - previous) / duration) / 1024 / 1024
interface_rate(delta, duration) ==
    FDiv(FDiv(FDiv(Frac(delta, 1), Frac(duration, 1)), Frac(1024, 1)),
         Frac(1024, 1))

\* lines 449-450 with the sectors taken for KB
disk_rate_no_sector_size(delta, duration, sector_size) ==
    FDiv(FDiv(Frac(delta, 1), Frac(duration, 1)), Frac(1024, 1))

\* lines 449-450: ((raw - previous) / duration) / (1024 / sector size) / 1024
disk_rate(delta, duration, sector_size) ==
    FDiv(FDiv(FDiv(Frac(delta, 1), Frac(duration, 1)),
              FDiv(Frac(1024, 1), Frac(sector_size, 1))),
         Frac(1024, 1))

\* lines 427-428 and 452-453
ZeroRate == [rx |-> Frac(0, 1), tx |-> Frac(0, 1)]

\* lines 418-430
get_interface_io_rate(interface) ==
    /\ \E raw \in RawSamples :
          IF interface \in DOMAIN raw_interface_io
          THEN LET previous == raw_interface_io[interface]
                   duration == raw.time - previous.time
               IN  IF duration = 0
                   THEN /\ io_call' = Call("interface", interface, raw,
                                           "ZeroDivisionError")
                        /\ UNCHANGED <<raw_interface_io, interface_io_rate>>
                   ELSE /\ interface_io_rate' =
                              dict_set(interface_io_rate, interface,
                                  [rx |-> interface_rate(raw.rx - previous.rx,
                                                         duration),
                                   tx |-> interface_rate(raw.tx - previous.tx,
                                                         duration)])
                        /\ raw_interface_io' =
                              dict_set(raw_interface_io, interface, raw)
                        /\ io_call' = Call("interface", interface, raw, "none")
          ELSE /\ interface_io_rate' =
                     dict_set(interface_io_rate, interface, ZeroRate)
               /\ raw_interface_io' = dict_set(raw_interface_io, interface, raw)
               /\ io_call' = Call("interface", interface, raw, "none")
    /\ UNCHANGED <<now, conf, run, oled_vars, fan_vars, temp_vars, key_vars,
                   poll_vars, raw_disk_io, disk_io_rate, disk_sector_sizes>>

\* lines 440-455, called with a partition
get_disk_io_rate(partition) ==
    LET disk == delete_disk_partition_number(partition)
    IN  /\ disk_sector_sizes' =
              IF disk \notin DOMAIN disk_sector_sizes
              THEN dict_set(disk_sector_sizes, disk, hw_sector_size(disk))
              ELSE disk_sector_sizes
        /\ \E raw \in RawSamples :
              IF disk \in DOMAIN raw_disk_io
              THEN LET previous == raw_disk_io[disk]
                       duration == raw.time - previous.time
                   IN  IF duration = 0
                       THEN /\ io_call' = Call("disk", disk, raw,
                                               "ZeroDivisionError")
                            /\ UNCHANGED <<raw_disk_io, disk_io_rate>>
                       ELSE /\ disk_io_rate' =
                                  dict_set(disk_io_rate, disk,
                                      [rx |-> disk_rate(raw.rx - previous.rx,
                                                  duration,
                                                  disk_sector_sizes'[disk]),
                                       tx |-> disk_rate(raw.tx - previous.tx,
                                                  duration,
                                                  disk_sector_sizes'[disk])])
                            /\ raw_disk_io' = dict_set(raw_disk_io, disk, raw)
                            /\ io_call' = Call("disk", disk, raw, "none")
              ELSE /\ disk_io_rate' = dict_set(disk_io_rate, disk, ZeroRate)
                   /\ raw_disk_io' = dict_set(raw_disk_io, disk, raw)
                   /\ io_call' = Call("disk", disk, raw, "none")
        /\ UNCHANGED <<now, conf, run, oled_vars, fan_vars, temp_vars,
                       key_vars, poll_vars, raw_interface_io,
                       interface_io_rate>>

\* the elements of a list
Range(list) == { list[i] : i \in 1..Len(list) }

----------------------------------------------------------------------------
(* Configurations *)

\* read_conf's defaults for lv0..lv3 (35, 40, 45, 50), on the scale of Temps
DefaultLevels == [lv0 |-> 1, lv1 |-> 2, lv2 |-> 3, lv3 |-> 4]

\* mounted partitions of the configured mount points, sorted (get_disk_list)
TwoPartitions == <<Partition("sda", 1), Partition("sda", 2)>>

Levels == [{"lv0", "lv1", "lv2", "lv3"} -> Temps]

Conf(auto, slider_time, refresh, disks, linear, fan) ==
    [auto |-> auto, slider_time |-> slider_time, refresh |-> refresh,
     interfaces |-> <<>>, disks |-> disks, disks_temp |-> FALSE,
     temp_disks |-> FALSE,
     linear |-> linear, fan |-> fan,
     time |-> [twice |-> 7, press |-> 18], zpools |-> <<>>]

OledInit ==
    /\ display_queue = <<>>
    /\ msg_count = 0
    /\ done_count = 0
    /\ display_lock = "free"
    /\ next_time = now
    /\ refresh_time = now
    /\ display_list = <<>>
    /\ last_page = NoPage
    /\ action = NoMsg
    /\ image = Blank
    /\ screen = Blank
    /\ zpool_cmd = "none"
    /\ dp_pc = "get"
    /\ as_pc = "start"
    /\ as_set_at = None
    /\ rd_pc = "loop"
    /\ main_pc = "welcome"

FanInit ==
    /\ fan_pc = "get_dc"
    /\ get_dc_cache = [p \in Callers |-> EmptyCache]
    /\ change_dc_cache = None
    /\ dc = None
    /\ page_dc = None
    /\ pin13 = None
    /\ wrote = FALSE
    /\ write_failed = FALSE

TempInit ==
    /\ t_arg = <<>>
    /\ t_res = <<>>

\* watch_key has called read_key, which has set s = ''
KeyInit ==
    /\ key_s = <<>>
    /\ key_ret = "none"
    /\ key_fed = <<>>
    /\ key_prev = "none"

\* lines 36-47: the dictionaries of the samplers are empty
IoInit ==
    /\ raw_interface_io = <<>>
    /\ raw_disk_io = <<>>
    /\ interface_io_rate = <<>>
    /\ disk_io_rate = <<>>
    /\ disk_sector_sizes = <<>>
    /\ io_call = NoCall

\* lines 50-51: last_fan_poll_time is [0.0]
PollInit ==
    /\ last_fan_poll_time = 0
    /\ poll_count = 0

----------------------------------------------------------------------------
(* The display scheduler *)

\* every setting of auto, the slider period and the refresh period with no
\* device page, and a manual slider with two partitions of one disk
Configs ==
    { Conf(auto, slider_time, refresh, <<>>, FALSE, DefaultLevels) :
        auto \in BOOLEAN, slider_time \in {0, MaxSlider},
        refresh \in {0, MaxRefresh} }
    \cup { Conf(FALSE, MaxSlider, 0, TwoPartitions, FALSE, DefaultLevels) }

Init ==
    /\ now = Epoch
    /\ run = TRUE
    /\ conf \in Configs
    /\ OledInit
    /\ FanInit
    /\ TempInit
    /\ KeyInit
    /\ IoInit
    /\ PollInit

Next ==
    \/ auto_slider
    \/ refresh_display
    \/ display_process
    \/ main
    \/ receive_key_slider
    \/ Tick

Spec == Init /\ [][Next]_vars

----------------------------------------------------------------------------
(* The display of a pool: display_process with the requests of the button   *)
(* and of refresh_display, on a rotation that ends with the page of a pool  *)

InitPool ==
    /\ now = Epoch
    /\ run = TRUE
    /\ \E refresh \in {0, MaxRefresh} :
          conf = [Conf(FALSE, MaxSlider, refresh, <<>>, FALSE, DefaultLevels)
                    EXCEPT !.zpools = <<"tank">>]
    /\ OledInit
    /\ FanInit
    /\ TempInit
    /\ KeyInit
    /\ IoInit
    /\ PollInit

NextPool ==
    \/ refresh_display
    \/ display_process
    \/ receive_key_slider
    \/ Tick

SpecPool == InitPool /\ [][NextPool]_vars

----------------------------------------------------------------------------
(* The poll of the disks' temperatures: the fan loop with temp_disks set and *)
(* display_process with the page of the disks' temperatures in its rotation *)

\* thresholds that no temperature of Temps reaches: one duty cycle
NoLevels == [lv \in {"lv0", "lv1", "lv2", "lv3"} |-> MaxTemp + 2]

\* the clock starts later than a poll delay after 0.0, the first value of
\* last_fan_poll_time, as time.time() does: the first read_cpu_temp polls
InitPoll ==
    /\ run = TRUE
    /\ conf = [Conf(FALSE, 1, 0, <<>>, FALSE, NoLevels)
                 EXCEPT !.disks_temp = TRUE, !.temp_disks = TRUE]
    /\ now = Epoch + fan_poll_delay
    /\ OledInit
    /\ FanInit
    /\ TempInit
    /\ KeyInit
    /\ IoInit
    /\ PollInit

PollTick ==
    /\ now < Epoch + fan_poll_delay + PollMaxTime
    /\ now' = now + 1
    /\ UNCHANGED <<conf, run, oled_vars, fan_vars, temp_vars, key_vars,
                   io_vars, poll_vars>>

NextPoll ==
    \/ running
    \/ display_process
    \/ receive_key_slider
    \/ PollTick

SpecPoll == InitPoll /\ [][NextPoll]_vars

----------------------------------------------------------------------------
(* The fan controller *)

\* thresholds in ascending order, all equal, and out of order
FanLevels == { DefaultLevels,
               [lv0 |-> 2, lv1 |-> 2, lv2 |-> 2, lv3 |-> 2],
               [lv0 |-> 3, lv1 |-> 1, lv2 |-> 4, lv3 |-> 2] }

InitFan ==
    /\ now = Epoch
    /\ run = TRUE
    /\ \E linear \in BOOLEAN, fan \in FanLevels :
          conf = Conf(TRUE, MaxSlider, 0, <<>>, linear, fan)
    /\ OledInit
    /\ FanInit
    /\ TempInit
    /\ KeyInit
    /\ IoInit
    /\ PollInit

NextFan ==
    \/ running
    \/ PageGetDc
    \/ fan_switch
    \/ FanTick

SpecFan == InitFan /\ [][NextFan]_vars

----------------------------------------------------------------------------
(* The button on every configuration of the press and twice times *)

InitKey ==
    /\ now = Epoch
    /\ run = TRUE
    /\ \E press \in 1..MaxSize, twice \in 1..MaxWait :
          conf = [Conf(TRUE, MaxSlider, 0, <<>>, FALSE, DefaultLevels)
                    EXCEPT !.time = [twice |-> twice, press |-> press]]
    /\ OledInit
    /\ FanInit
    /\ TempInit
    /\ KeyInit
    /\ IoInit
    /\ PollInit

NextKey == read_key

SpecKey == InitKey /\ [][NextKey]_vars

----------------------------------------------------------------------------
(* The rate samplers, on one interface, a disk of 512 byte sectors or a disk *)
(* of 4096 byte sectors                                                      *)

InitIo ==
    /\ now = Epoch
    /\ run = TRUE
    /\ \E interfaces \in {<<>>, <<"eth0">>} :
       \E disks \in {<<>>, <<Partition("sda", 1)>>, <<Partition("sdb", 1)>>} :
          /\ Len(interfaces) + Len(disks) = 1
          /\ conf = [Conf(TRUE, MaxSlider, 0, disks, FALSE, DefaultLevels)
                       EXCEPT !.interfaces = interfaces]
    /\ OledInit
    /\ FanInit
    /\ TempInit
    /\ KeyInit
    /\ IoInit
    /\ PollInit

NextIo ==
    \/ \E interface \in Range(conf.interfaces) :
          get_interface_io_rate(interface)
    \/ \E partition \in Range(conf.disks) : get_disk_io_rate(partition)

SpecIo == InitIo /\ [][NextIo]_vars

----------------------------------------------------------------------------
(* The fan curve on every configuration of the thresholds *)

InitTemp ==
    /\ now = Epoch
    /\ run = TRUE
    /\ \E linear \in BOOLEAN, fan \in Levels :
          conf = Conf(TRUE, MaxSlider, 0, <<>>, linear, fan)
    /\ OledInit
    /\ FanInit
    /\ TempInit
    /\ KeyInit
    /\ IoInit
    /\ PollInit

NextTemp == Temp2dc

SpecTemp == InitTemp /\ [][NextTemp]_vars

----------------------------------------------------------------------------
(* Claims about the display scheduler, checked under Spec *)

MainInDraw == main_pc \in {"welcome_draw", "goodbye_draw", "goodbye_clear"}
DpInDraw == dp_pc \in {"update", "render", "show", "pop"}

\* C1: at most one of welcome(), goodbye() and display_process is between
\* draw.text and disp_show, and whoever is there holds display_lock.
C1_DisplayMutex ==
    /\ ~(MainInDraw /\ DpInDraw)
    /\ MainInDraw => display_lock = "main"
    /\ DpInDraw => display_lock = "display_process"

\* display_process is about to call disp_show while goodbye() sleeps between
\* its banner and its clear
C1_Witness == dp_pc = "show" /\ main_pc = "goodbye_sleep"

\* C2: requests leave display_queue in the order they were put on it, each
\* exactly once, and display_process takes the next one only when it is done
\* with the one before.
C2_QueueOrder ==
    /\ msg_count = done_count + Len(display_queue)
    /\ \A i \in 1..Len(display_queue) : display_queue[i].id = done_count + i
    /\ dp_pc # "get" => action.id = done_count
    /\ dp_pc = "get" => action = NoMsg /\ display_lock # "display_process"

\* a refresh waits behind an advance while display_process is still busy
\* with an earlier request
C2_Witness ==
    /\ Len(display_queue) = 2
    /\ display_queue[1].adv
    /\ ~display_queue[2].adv
    /\ dp_pc = "show"

\* C3: an advance processed at time t sets next_time = t + slider period and
\* refresh_time = t + refresh period, shows the head of the list, which is
\* then removed, and the page shown differs from the one shown before unless
\* the generated list has one entry.
C3_AdvanceEffect ==
    [][ /\ (dp_pc = "update" /\ dp_pc' # "update" /\ action.adv) =>
            /\ next_time' = now + get_slider_sleep_duration
            /\ refresh_time' = now + get_refresh_period
            /\ last_page' = Head(display_list')
            /\ last_page' # last_page \/ Len(gen_display_pages_list) = 1
        /\ (dp_pc = "pop" /\ dp_pc' # "pop" /\ action.adv) =>
            /\ last_page = Head(display_list)
            /\ display_list' = Tail(display_list)
      ]_vars

\* C4: a refresh redraws last_page and sets refresh_time = now + refresh
\* period; it changes neither next_time nor last_page and pops no page (an
\* exhausted list is regenerated, which leaves the pages to come as they were).
C4_RefreshEffect ==
    [][ (DpInDraw /\ dp_pc' # dp_pc /\ ~action.adv) =>
            /\ next_time' = next_time
            /\ last_page' = last_page
            /\ refilled(display_list') = refilled(display_list)
            /\ dp_pc = "update" => refresh_time' = now + get_refresh_period
            /\ dp_pc = "render" => image' \in {last_page, image}
            /\ dp_pc = "show" => screen' = image
      ]_vars

\* a refresh has redrawn the page an earlier advance showed
C4_Witness ==
    /\ dp_pc = "pop"
    /\ action.id > 1
    /\ ~action.adv
    /\ last_page # NoPage
    /\ screen = last_page

----------------------------------------------------------------------------
(* Claims about the fan controller, checked under SpecFan *)

\* C6: two recomputations of the duty cycle from the temperature, by any
\* callers of get_dc, are at least 5 seconds apart.
C6_RecomputeRateLimit ==
    [][ \A p \in Callers :
            get_dc_cache'[p] # get_dc_cache[p] =>
                \A q \in Callers :
                    \/ get_dc_cache[q].time = None
                    \/ now - get_dc_cache[q].time >= 5
      ]_vars

\* C7: change_dc writes to the pin exactly when the duty cycle differs from
\* the one last written; the first call writes.
C7_WriteSuppression ==
    [][ (fan_pc = "change_dc" /\ fan_pc' # "change_dc") =>
            /\ wrote' <=> (pin13 = None \/ dc # Percent(100) - pin13)
            /\ wrote' => pin13' = Percent(100) - dc
            /\ ~wrote' => pin13' = pin13
      ]_vars

\* a tick whose duty cycle equals the one on the pin has written nothing
C7_Witness ==
    /\ fan_pc = "get_dc"
    /\ pin13 # None
    /\ dc = Percent(100) - pin13
    /\ ~wrote

\* C8: every duty cycle running() hands to change_dc is above 0: 0.1 percent
\* whenever the fan is switched off, else at least 10 percent in step mode
\* and 25 percent in linear mode; so is every duty cycle written to the pin.
C8_DutyCycleAboveZero ==
    [][ /\ (fan_pc = "get_dc" /\ fan_pc' # "get_dc") =>
            /\ dc' > 0
            /\ ~run => dc' = Percent(1) \div 10
            /\ run => dc' >= (IF conf.linear THEN Percent(25) ELSE Percent(10))
        /\ (fan_pc = "change_dc" /\ wrote') => pin13' < Percent(100)
      ]_vars

\* the fan was switched off while a fresh duty cycle was cached, and the
\* next tick yields 0.1 percent
C8_Witness ==
    /\ ~run
    /\ fan_pc = "change_dc"
    /\ dc = Percent(1) \div 10
    /\ get_dc_cache["fan"].dc # None
    /\ ~stale(get_dc_cache["fan"])

----------------------------------------------------------------------------
(* Claims about misc.fan_temp2dc, checked under SpecTemp *)

Applied == t_res # <<>>

\* C9: in step mode, whatever the order of the thresholds, the duty cycle
\* does not decrease as the temperature rises and is one of 10, 25, 50, 75,
\* 100 percent.
C9_StepMonotone ==
    (Applied /\ ~conf.linear) =>
        /\ t_arg[1] <= t_arg[2] => t_res[1] <= t_res[2]
        /\ \A i \in 1..2 :
              t_res[i] \in {Percent(10), Percent(25), Percent(50),
                            Percent(75), Percent(100)}

\* thresholds out of order, and two temperatures with different duty cycles
C9_Witness ==
    /\ Applied
    /\ ~conf.linear
    /\ conf.fan["lv0"] > conf.fan["lv1"]
    /\ conf.fan["lv2"] > conf.fan["lv3"]
    /\ t_arg[1] < t_arg[2]
    /\ t_res[1] < t_res[2]

InRange(d) == Percent(25) <= d /\ d <= Percent(100)

\* C10 as stated: in linear mode, for every lv0 and lv3, fan_temp2dc(lv0) is
\* 25, fan_temp2dc(lv3) is 100, and the result is in [25, 100], 25 below lv0
\* and 100 above lv3.
C10_LinearEndpoints ==
    (Applied /\ conf.linear) =>
        \A i \in 1..2 :
            /\ InRange(t_res[i])
            /\ t_arg[i] = conf.fan["lv0"] => t_res[i] = Percent(25)
            /\ t_arg[i] = conf.fan["lv3"] => t_res[i] = Percent(100)
            /\ t_arg[i] < conf.fan["lv0"] => t_res[i] = Percent(25)
            /\ t_arg[i] > conf.fan["lv3"] => t_res[i] = Percent(100)

\* C10, amended: in linear mode the result is in [25, 100] and is 25 at and
\* below lv0 for every lv0 and lv3; it is 100 at and above lv3 when
\* lv3 > lv0, and when lv3 <= lv0 it is 25 at lv3 and rises by one percent
\* per degree above lv0.
C10_LinearEndpointsAmended ==
    (Applied /\ conf.linear) =>
        \A i \in 1..2 :
            /\ InRange(t_res[i])
            /\ t_arg[i] <= conf.fan["lv0"] => t_res[i] = Percent(25)
            /\ (conf.fan["lv3"] > conf.fan["lv0"] /\ t_arg[i] >= conf.fan["lv3"])
                  => t_res[i] = Percent(100)
            /\ (conf.fan["lv3"] <= conf.fan["lv0"] /\ t_arg[i] >= conf.fan["lv0"])
                  => t_res[i] = Min(Percent(100),
                                    Percent(25 + t_arg[i] - conf.fan["lv0"]))

\* both ends of a proper span, and the value half way
C10_Witness ==
    /\ Applied
    /\ conf.linear
    /\ conf.fan["lv3"] = conf.fan["lv0"] + 2
    /\ t_arg = <<conf.fan["lv0"], conf.fan["lv3"]>>
    /\ t_res = <<Percent(25), Percent(100)>>

----------------------------------------------------------------------------
(* The button *)

\* the gesture of highest priority among those of ts, in the order
\* press > twice > click
highest(ts) ==
    IF "press" \in ts THEN "press"
    ELSE IF "twice" \in ts THEN "twice"
    ELSE "click"

\* C11: when the window matches more than one pattern, read_key returns the
\* gesture of highest priority in the order press > twice > click.
C11_GesturePrecedence ==
    Cardinality(matching(key_s)) > 1 => key_ret = highest(matching(key_s))

\* n samples equal to c
Rep(c, n) == [i \in 1..n |-> c]

IsPrefix(s, t) == Len(s) <= Len(t) /\ s = SubSeq(t, 1, Len(s))

\* two short presses and three highs
TwoCycles == <<1, 0, 1, 0, 1, 1, 1>>

\* what read_key does while it is fed the samples of t from an empty window:
\* it returns gesture on the last of them and nothing before
ReturnsAtEnd(t, gesture) ==
    IsPrefix(key_fed, t)
        => key_ret = IF key_fed = t THEN gesture ELSE "none"

\* C13: from an empty window the samples 1,0,1,0,1,1,1 make read_key return
\* 'twice' on the last of them and nothing before, for every configured
\* wait (click samples) and size (press samples).
C13_Twice == ReturnsAtEnd(TwoCycles, "twice")

\* C13, amended: the same for every wait >= 2 and every size >= 6.
C13_TwiceAmended == (wait >= 2 /\ size >= 6) => ReturnsAtEnd(TwoCycles, "twice")

C13_Witness ==
    /\ wait >= 2
    /\ size >= 6
    /\ key_fed = TwoCycles
    /\ key_ret = "twice"

\* one short press and wait highs
OneCycle == <<1, 0>> \o Rep(1, wait)

\* C14: from an empty window the samples 1,0 followed by wait highs make
\* read_key return 'click' on the last of the highs and nothing before.
C14_Click == ReturnsAtEnd(OneCycle, "click")

\* C14, amended: the same whenever wait < size.
C14_ClickAmended == wait < size => ReturnsAtEnd(OneCycle, "click")

C14_Witness ==
    /\ 1 < wait
    /\ wait < size
    /\ key_fed = OneCycle
    /\ key_ret = "click"

----------------------------------------------------------------------------
(* The rate samplers *)

\* the previous samples and the rates of a class of devices, before and
\* after a step
raw_of(kind) ==
    IF kind = "interface" THEN raw_interface_io ELSE raw_disk_io

raw_after(kind) ==
    IF kind = "interface" THEN raw_interface_io' ELSE raw_disk_io'

rate_of(kind) ==
    IF kind = "interface" THEN interface_io_rate ELSE disk_io_rate

rate_after(kind) ==
    IF kind = "interface" THEN interface_io_rate' ELSE disk_io_rate'

\* the bytes that one unit of the counters of the device stands for
unit_bytes(call) ==
    IF call.kind = "interface" THEN 1 ELSE hw_sector_size(call.device)

\* whether the rate is the fraction n / d
IsRate(rate, n, d) == Norm(rate) = Norm(Frac(n, d))

\* C15: the first call for a device returns rx = tx = 0 and records the
\* baseline; a later call whose counter differs by D (bytes, or sectors times
\* the sector size) after E > 0 seconds returns D / E / (1024 * 1024); after
\* every completed call the stored previous sample is the sample just read.
C15_RateSampler ==
    [][ io_call'.error = "none" =>
          LET kind == io_call'.kind
              device == io_call'.device
              raw == io_call'.raw
              previous == raw_of(kind)[device]
          IN  /\ raw_after(kind)[device] = raw
              /\ device \notin DOMAIN raw_of(kind)
                    => rate_after(kind)[device] = ZeroRate
              /\ (device \in DOMAIN raw_of(kind)
                     /\ raw.time - previous.time > 0)
                    => /\ IsRate(rate_after(kind)[device].rx,
                                 (raw.rx - previous.rx) * unit_bytes(io_call'),
                                 (raw.time - previous.time) * (1024 * 1024))
                       /\ IsRate(rate_after(kind)[device].tx,
                                 (raw.tx - previous.tx) * unit_bytes(io_call'),
                                 (raw.time - previous.time) * (1024 * 1024))
      ]_vars

\* a disk of 4096 byte sectors that read one sector in two seconds
C15_Witness ==
    /\ io_call.kind = "disk"
    /\ io_call.error = "none"
    /\ "sdb" \in DOMAIN disk_io_rate
    /\ IsRate(disk_io_rate["sdb"].rx, 4096, 2 * 1024 * 1024)
    /\ raw_disk_io["sdb"] = io_call.raw

\* C16: when the time between two samples is zero or negative, the sampler
\* raises no division error and leaves the stored rates as they were.
C16_ClockAnomaly ==
    [][ LET kind == io_call'.kind
            device == io_call'.device
            raw == io_call'.raw
        IN  (device \in DOMAIN raw_of(kind)
               /\ raw.time - raw_of(kind)[device].time <= 0)
              => /\ io_call'.error = "none"
                 /\ rate_after(kind)[device] = rate_of(kind)[device]
      ]_vars

----------------------------------------------------------------------------
(* The page of a pool *)

\* C17: a page drawn for an advance request samples the throughput of its
\* pool by the estimate that does not block (the counters since boot over the
\* uptime); the sample that blocks for an interval is taken only for a
\* refresh request.
C17_AdvanceNeverBlocks ==
    /\ zpool_cmd = "blocking" => ~action.adv
    /\ (dp_pc = "show" /\ action.adv /\ last_page = ZpoolPage(last_page.name))
          => zpool_cmd = "estimate"

\* the page of the pool is drawn for an advance
C17_Witness ==
    /\ dp_pc = "show"
    /\ action.adv
    /\ last_page = ZpoolPage("tank")
    /\ zpool_cmd = "estimate"

----------------------------------------------------------------------------
(* The fan and its pin *)

\* C18: when a write to the pin fails, the loop of the fan keeps running and
\* its next tick writes the duty cycle again, unchanged though it is.
C18_WriteFailure ==
    [][ /\ (fan_pc = "change_dc" /\ wrote' /\ write_failed')
              => fan_pc' = "get_dc"
        /\ (fan_pc = "change_dc" /\ write_failed /\ fan_pc' # fan_pc)
              => wrote'
      ]_vars

----------------------------------------------------------------------------
(* Failures of a render, and the writers of the deadlines *)

\* get_page_text raised an exception: nothing was drawn for the request
RenderRaised == dp_pc = "show" /\ image # last_page

\* C19: when the render of a request raises an exception, display_process
\* writes nothing to the display for that request: what it showed stays.
C19_RenderFailure ==
    [][ (RenderRaised /\ dp_pc' # dp_pc) => screen' = screen ]_vars

\* the statements of display_process that set the deadlines: it holds the lock
DpWrites ==
    /\ dp_pc = "update"
    /\ dp_pc' # dp_pc
    /\ display_lock = "display_process"

\* line 332 and line 336 of auto_slider
AsWrites == as_pc \in {"start", "loop"} /\ as_pc' # as_pc

\* line 395 of refresh_display, followed by the put of line 396
RdWrites ==
    /\ rd_pc = "loop"
    /\ get_refresh_period # 0
    /\ msg_count' = msg_count + 1
    /\ display_queue' = Append(display_queue, Msg(FALSE, msg_count'))

\* C20: next_time and refresh_time are written only by display_process, and
\* only while it holds display_lock; auto_slider and refresh_display only
\* read them.
C20_WriterDiscipline ==
    [][ (next_time' # next_time \/ refresh_time' # refresh_time) => DpWrites
      ]_vars

\* C20, amended: next_time is written by display_process, for an advance and
\* while it holds display_lock, and by auto_slider; refresh_time is written
\* by display_process while it holds display_lock and by refresh_display when
\* the refresh period is not zero.  Nothing else writes them.
C20_WriterDisciplineAmended ==
    [][ /\ next_time' # next_time
              => \/ DpWrites /\ action.adv /\ refresh_time' = now + get_refresh_period
                 \/ AsWrites /\ refresh_time' = refresh_time
        /\ refresh_time' # refresh_time
              => \/ DpWrites
                 \/ RdWrites /\ next_time' = next_time
      ]_vars

\* display_process has set, under the lock, a deadline of the slider that is
\* not the one auto_slider had set for itself
C20_Witness ==
    /\ dp_pc = "render"
    /\ display_lock = "display_process"
    /\ action.adv
    /\ as_pc = "wait"
    /\ next_time = now + get_slider_sleep_duration
    /\ next_time # as_set_at + get_slider_sleep_duration

----------------------------------------------------------------------------
(* The requests of auto_slider *)

\* a statement of auto_slider that puts a request: line 333 or line 339
AsPuts ==
    /\ as_pc \in {"start", "put"}
    /\ as_pc' # as_pc
    /\ msg_count' = msg_count + 1
    /\ display_queue' = Append(display_queue, Msg(TRUE, msg_count'))

\* C21: auto_slider puts an advance request only while auto is on and the
\* slider period is not zero; with a period of zero it idles and puts
\* nothing, and with auto off it puts no advance request at all.
C21_AutoSliderPuts ==
    [][ /\ (as_pc' # as_pc \/ as_set_at' # as_set_at)
              => \/ AsPuts /\ conf.auto /\ conf.slider_time # 0
                 \/ display_queue' = display_queue
      ]_vars

\* C21, amended: the same for every request but the first.  auto_slider
\* puts one advance request when it starts, whatever auto and the slider
\* period are, and every later one while auto is on and the period not zero.
C21_AutoSliderPutsAmended ==
    [][ /\ as_pc = "start" /\ as_pc' # as_pc => AsPuts
        /\ (as_pc # "start" /\ (as_pc' # as_pc \/ as_set_at' # as_set_at))
              => \/ AsPuts /\ conf.auto /\ conf.slider_time # 0
                 \/ display_queue' = display_queue
        /\ (as_pc = "loop" /\ conf.auto /\ conf.slider_time = 0)
              => as_pc' = "loop"
        /\ (as_pc = "loop" /\ ~conf.auto) => as_pc' \in {"loop", "done"}
        /\ as_pc = "done" => as_pc' = "done"
      ]_vars

\* auto_slider has put a request of its loop, after the one of its start
C21_Witness ==
    /\ as_pc = "loop"
    /\ as_set_at # None
    /\ conf.auto
    /\ conf.slider_time # 0
    /\ msg_count >= 2

(* The rotation of the pages *)

\* the pages still to come are the last entries of the generated list
IsRest(list) ==
    \E i \in 0..Len(gen_display_pages_list) :
        list = SubSeq(gen_display_pages_list, i + 1, Len(gen_display_pages_list))

\* C22: the list of pages to come is always a rest of the generated list; it
\* changes only by being regenerated when it is empty or by an advance that
\* removes its head, which is the page that advance chose and drew (a blank
\* frame when its render raised); a refresh removes nothing and chooses no
\* page, so refreshes in between neither skip, repeat nor reorder the pages.
C22_RotationOrder ==
    [][ /\ IsRest(display_list')
        /\ display_list' # display_list =>
              \/ /\ dp_pc = "update"
                 /\ display_list = <<>>
                 /\ display_list' = gen_display_pages_list
              \/ /\ dp_pc = "pop"
                 /\ action.adv
                 /\ last_page = Head(display_list)
                 /\ display_list' = Tail(display_list)
        /\ (dp_pc = "update" /\ dp_pc' # dp_pc) =>
              last_page' = IF action.adv THEN Head(display_list') ELSE last_page
        /\ (dp_pc = "show" /\ dp_pc' # dp_pc) =>
              screen' \in {last_page, Blank}
        /\ (dp_pc = "pop" /\ dp_pc' # dp_pc) =>
              display_list' = IF action.adv THEN Tail(display_list)
                              ELSE display_list
      ]_vars

\* a refresh in the middle of a rotation has redrawn the page of the last
\* advance and is about to leave the pages to come as they are
C22_Witness ==
    /\ dp_pc = "pop"
    /\ ~action.adv
    /\ display_list # <<>>
    /\ Len(display_list) < Len(gen_display_pages_list) - 1
    /\ last_page = gen_display_pages_list[Len(gen_display_pages_list)
                                            - Len(display_list)]
    /\ screen = last_page

(* The poll of the disks' temperatures *)

\* read_cpu_temp, called by get_dc in the fan loop, polls the disks
FanPolls ==
    /\ fan_pc = "get_dc"
    /\ fan_pc' # fan_pc
    /\ poll_count' # poll_count

\* the page of the disks' temperatures is drawn and polls the disks
PagePolls ==
    /\ dp_pc = "render"
    /\ dp_pc' # dp_pc
    /\ page_polls(last_page)
    /\ poll_count' # poll_count

C25_ShortPress ==
    \A highs \in 1..MaxFed, k \in 1..size - 1 :
        key_fed = Rep(1, highs) \o Rep(0, k) \o Rep(1, wait)
            => key_ret = "click"

(* A refresh before the first advance *)

\* C26: a refresh that display_process takes while it has shown no page yet
\* draws nothing and leaves the display as it is, removes no page (it
\* generates the list, which was empty) and display_process goes on to the
\* next request; the first advance after it shows the first page of the
\* generated list.
C26_RefreshFirst ==
    [][ /\ (DpInDraw /\ dp_pc' # dp_pc /\ ~action.adv /\ last_page = NoPage) =>
              /\ last_page' = NoPage
              /\ screen' = screen
              /\ image' = image
              /\ display_list' = gen_display_pages_list
              /\ dp_pc = "update" => dp_pc' = "pop"
              /\ dp_pc = "pop" => dp_pc' = "get" /\ display_lock' = "free"
              /\ dp_pc \in {"update", "pop"}
        /\ (dp_pc = "update" /\ dp_pc' # dp_pc /\ action.adv
              /\ last_page = NoPage) =>
              /\ last_page' = gen_display_pages_list[1]
              /\ display_list' = gen_display_pages_list
              /\ dp_pc' = "render"
      ]_vars

\* the first request was a refresh, the second is an advance: it has drawn the
\* first page of the list, from which nothing was removed
C26_Witness ==
    /\ dp_pc = "show"
    /\ action.adv
    /\ done_count = 2
    /\ display_list = gen_display_pages_list
    /\ last_page = gen_display_pages_list[1]
    /\ image = last_page

(* The banner of goodbye() *)

\* C27: from the disp_show of goodbye() that shows 'Good Bye ~' to its last
\* disp_show, which clears the display, the display shows the banner:
\* display_process writes nothing to it in between.
C27_BannerIntegrity ==
    main_pc \in {"goodbye_sleep", "goodbye_clear"} => screen = GoodbyeBanner

(* The end of display_process *)

\* C28: display_process holds display_lock only between taking a request and
\* finishing it, and no failure of the regeneration of the page list ends its
\* loop: it is always there to take the next request off the queue.
C28_ConsumerAlive ==
    /\ display_lock = "display_process" <=> DpInDraw
    /\ dp_pc # "dead"

====
